---- MODULE Spec2Model ----
(***************************************************************************)
(* Enumerated field pointer registry of code_saturne                       *)
(* (base/cs_field_pointer.cpp): a process-wide array of slots, one per     *)
(* enumerator, each holding a direct field handle `f` and a pointer `p`    *)
(* that is either the address of `f` or a separately allocated sub-list.   *)
(***************************************************************************)
EXTENDS Integers, Sequences, FiniteSets, TLC

(* ------------------------------------------------------------------ *)
(* Bounds of the model                                                 *)
(* ------------------------------------------------------------------ *)

\* Number of enumerators (CS_FIELD_N_POINTERS) taken by the model.
N_POINTERS == 4

\* Number of threads calling the registry without synchronization.
MaxThreads == 2

\* Number of enumerators the callers of cs_field_pointer_map and
\* cs_field_pointer_map_indexed target (the highest ones).
MaxTargets == 2

\* Largest number of cs_field_pointer_map_atmospheric calls explored between
\* an initialization and the next teardown.
MaxAtmoCalls == 2

\* Largest "small" sub-list index passed to the mapping calls.
MaxIndex == 2

\* Largest number of mapping calls explored between an initialization and
\* the next teardown.
MaxCalls == 3

\* Width in bits of `short int`, the type of the _sublist_size entries.
ShortBits == 16

(* ------------------------------------------------------------------ *)
(* Values                                                              *)
(* ------------------------------------------------------------------ *)

\* The null field handle (nullptr as a cs_field_t *).
Null == "null"

\* Field objects owned by the field subsystem; the registry stores handles.
Fields == {"fA", "fB"}

Handles == Fields \cup {Null}

\* A null array pointer (_field_pointer, _sublist_size).
NULLPTR == << >>

\* Marker of the history variable: position not mapped since initialization.
NotMapped == "not_mapped"

\* Result of a read the language leaves undefined (null or out-of-range
\* dereference).
Undefined == "undefined"

Enumerators == 0 .. (N_POINTERS - 1)

\* The enumerators cs_field_pointer_map_atmospheric maps: CS_ENUMF_(pot_t),
\* CS_ENUMF_(ym_w), CS_ENUMF_(ntdrp) and CS_ENUMF_(chemistry).
pot_t == 0
ym_w == 1
ntdrp == 2
chemistry == 3

\* Enumerators targeted by the direct callers of the mapping functions.
Targets == {e \in Enumerators : e >= N_POINTERS - MaxTargets}

SHRT_MAX == (2 ^ (ShortBits - 1)) - 1

\* Sub-list indices the callers pass: the small ones, and the first one
\* whose width index + 1 no longer fits a short int.
Indices == (0 .. MaxIndex) \cup {SHRT_MAX}

\* Conversion of an int to short int (modulo 2^ShortBits, two's complement).
ToShort(n) == ((n + 2 ^ (ShortBits - 1)) % (2 ^ ShortBits)) - 2 ^ (ShortBits - 1)

(* ------------------------------------------------------------------ *)
(* Sub-list storage                                                    *)
(* A pointer `p` is a record: own = FALSE when it is &f (the inline   *)
(* handle), own = TRUE when it is a separately allocated array of     *)
(* `len` handles.  `at` holds the non-null entries as <<index,        *)
(* handle>> pairs; every other position below `len` is null.           *)
(* ------------------------------------------------------------------ *)

InlineP == [own |-> FALSE, len |-> 1, at |-> {}]

\* arr[i] for a position inside the array.
ArrGet(at, i) ==
  IF \E pr \in at : pr[1] = i
    THEN (CHOOSE pr \in at : pr[1] = i)[2]
    ELSE Null

\* arr[i] = h
ArrSet(at, i, h) ==
  LET rest == {pr \in at : pr[1] # i}
  IN  IF h = Null THEN rest ELSE rest \cup {<<i, h>>}

\* for (i = lo; i < hi; i++) arr[i] = nullptr, for the positions that exist.
ArrClear(at, lo, hi) == {pr \in at : ~(pr[1] >= lo /\ pr[1] < hi)}

\* Contents kept by a reallocation to n elements.
ArrTrunc(at, n) == {pr \in at : pr[1] < n}

(* ------------------------------------------------------------------ *)
(* State                                                               *)
(* ------------------------------------------------------------------ *)

VARIABLES
  n_pointers,              \* _n_pointers
  field_pointer,           \* _field_pointer: NULLPTR or the array of slots
  sublist_size,            \* _sublist_size: NULLPTR or the array of widths
  cs_glob_field_pointers,  \* public pointer: GlobNull or alias of the array
  status,                  \* "running", or "crashed" once the process died
  mapped,                  \* history: handle last mapped at (e, index)
  calls,                   \* history: shape of the calls made on each slot
  last,                    \* history: the last call made
  field_objects,           \* the field objects (cs_field_t) the handles name
  threads                  \* position of each thread inside its call

vars == <<n_pointers, field_pointer, sublist_size, cs_glob_field_pointers,
          status, mapped, calls, last, field_objects, threads>>

GlobNull == "nullptr"
GlobArray == "_field_pointer"

\* Outcomes of a call whose behaviour the language leaves undefined: the
\* process dies, or the stray access is harmless and the call carries on.
UBOutcomes == {"crash", "continue"}

\* No position mapped since initialization.
NoneMapped == [e \in Enumerators |-> [i \in Indices |-> NotMapped]]

\* Per slot: n, the number of mapping calls since initialization; asc, whether
\* the k-th of them had index k - 1 for every k; desc, whether they are at
\* most two and the second has a lower index than the first.
Fresh == [n |-> 0, asc |-> TRUE, desc |-> TRUE]
NoCalls == [e \in Enumerators |-> Fresh]

\* The history after a call on (e, index) with handle f; only the indices of
\* Indices are recorded.
Recorded(hist, e, index, f) ==
  IF index \in Indices THEN [hist EXCEPT ![e][index] = f] ELSE hist

MappedIndices(hist, e) == {i \in Indices : hist[e][i] # NotMapped}

NextShape(c, hist, e, index) ==
  [n    |-> c.n + 1,
   asc  |-> c.asc /\ index = c.n,
   desc |-> \/ c.n = 0
            \/ c.n = 1 /\ \A i \in MappedIndices(hist, e) : index < i]

RECURSIVE SumCalls(_, _)
SumCalls(c, k) == IF k < 0 THEN 0 ELSE c[k].n + SumCalls(c, k - 1)

\* Number of mapping calls made since initialization.
ncalls == SumCalls(calls, N_POINTERS - 1)

\* The last call: its name and arguments, whether the call before it was a
\* completed destroy_all, and (for destroy_all and the call right after it)
\* the number of sub-list arrays that destroy_all released.
NoCall == [op |-> "none", e |-> 0, index |-> 0,
           after_destroy |-> FALSE, freed |-> 0]

Call(op, e, index, freed) ==
  [op |-> op, e |-> e, index |-> index,
   after_destroy |-> (last.op = "destroy_all" /\ status = "running"),
   freed |-> IF op = "destroy_all" THEN freed
             ELSE IF last.op = "destroy_all" THEN last.freed ELSE 0]

\* The field objects are created by the field subsystem before the registry
\* maps them.
LiveFields == [f \in Fields |-> "live"]

\* The calls of the specifications below come from one thread, outside any
\* call between two of them.
OneThread == << >>

\* The static and global variables before any call.
Unset ==
  /\ field_objects = LiveFields
  /\ n_pointers = 0
  /\ field_pointer = NULLPTR
  /\ sublist_size = NULLPTR
  /\ cs_glob_field_pointers = GlobNull
  /\ status = "running"
  /\ mapped = NoneMapped
  /\ calls = NoCalls
  /\ last = NoCall

Init == Unset /\ threads = OneThread

Initialized == field_pointer # NULLPTR

(* ------------------------------------------------------------------ *)
(* Lookups (macros CS_F_ and CS_FI_)                                   *)
(* ------------------------------------------------------------------ *)

\* p[i] through a slot's pointer: (&f)[i] when p is inline, arr[i] otherwise.
Deref(slot, i) ==
  IF slot.p.own
    THEN IF i >= 0 /\ i < slot.p.len THEN ArrGet(slot.p.at, i) ELSE Undefined
    ELSE IF i = 0 THEN slot.f ELSE Undefined

\* CS_F_(e): cs_glob_field_pointers[e].f
CS_F_(e) ==
  IF cs_glob_field_pointers = GlobNull
    THEN Undefined
    ELSE field_pointer[e].f

\* CS_FI_(e, i): cs_glob_field_pointers[e].p[i]
CS_FI_(e, i) ==
  IF cs_glob_field_pointers = GlobNull
    THEN Undefined
    ELSE Deref(field_pointer[e], i)

(* ------------------------------------------------------------------ *)
(* Initialization and teardown                                         *)
(* ------------------------------------------------------------------ *)

\* CS_FREE(ptr): releases the block and sets the pointer to null.
CS_FREE(ptr) == NULLPTR

\* Mutant of InitSlots: the direct handle is left uninitialized.
InitSlots_Uninit == [i \in Enumerators |-> [f |-> "fA", p |-> InlineP]]

\* Arrays built by _init_pointers: every slot has f = nullptr, p = &f and
\* width 0.
InitSlots == [i \in Enumerators |-> [f |-> Null, p |-> InlineP]]

InitSizes == [i \in Enumerators |-> 0]

\* _init_pointers()
init_pointers ==
  /\ n_pointers' = N_POINTERS
  /\ field_pointer' = InitSlots
  /\ sublist_size' = InitSizes
  /\ cs_glob_field_pointers' = GlobArray
  /\ mapped' = NoneMapped
  /\ calls' = NoCalls

\* Mutant of cs_field_pointer_ensure_init: the test of _field_pointer is
\* missing.
ensure_init_Always ==
  /\ status = "running"
  /\ last' = Call("ensure_init", 0, 0, 0)
  /\ UNCHANGED <<status, field_objects, threads>>
  /\ init_pointers

\* cs_field_pointer_ensure_init()
cs_field_pointer_ensure_init ==
  /\ status = "running"
  /\ last' = Call("ensure_init", 0, 0, 0)
  /\ UNCHANGED <<status, field_objects, threads>>
  /\ IF field_pointer = NULLPTR
       THEN init_pointers
       ELSE UNCHANGED <<n_pointers, field_pointer, sublist_size,
                        cs_glob_field_pointers, mapped, calls>>

\* Slots whose sub-list array destroy_all releases.
Released == {i \in 0 .. (n_pointers - 1) : sublist_size[i] > 1}

\* Mutant of PointedBlock: the handle stored at p[0] is taken for the block.
PointedBlock_Handle(s) == Deref(s, 0)

\* The memory block a slot's pointer p points to: the sub-list array, or the
\* slot array itself when p is &f.
PointedBlock(s) == IF s.p.own THEN "sublist" ELSE "_field_pointer"

\* The blocks CS_FREE(_field_pointer[i].p) is applied to by the loop of
\* cs_field_pointer_destroy_all.
FreedBlocks == {PointedBlock(field_pointer[i]) : i \in Released}

\* The field objects once the blocks of `blocks` are released.
AfterFree(objs, blocks) ==
  [f \in Fields |-> IF f \in blocks THEN "freed" ELSE objs[f]]

\* Mutant of cs_field_pointer_destroy_all: the public pointer is not reset.
destroy_all_KeepGlob(outcome) ==
  /\ status = "running"
  /\ outcome = "continue"
  /\ last' = Call("destroy_all", 0, 0, 0)
  /\ field_pointer' = CS_FREE(field_pointer)
  /\ sublist_size' = CS_FREE(sublist_size)
  /\ mapped' = NoneMapped
  /\ calls' = NoCalls
  /\ field_objects' = AfterFree(field_objects, FreedBlocks)
  /\ UNCHANGED <<n_pointers, status, cs_glob_field_pointers, threads>>

\* cs_field_pointer_destroy_all().  The loop runs over _n_pointers entries,
\* and _n_pointers is not reset by the teardown: on a registry already
\* destroyed the loop reads _sublist_size[i] through a null pointer.
cs_field_pointer_destroy_all(outcome) ==
  /\ status = "running"
  /\ IF n_pointers > 0 /\ sublist_size = NULLPTR
       THEN /\ last' = Call("destroy_all", 0, 0, 0)
            /\ status' = IF outcome = "crash" THEN "crashed" ELSE status
            /\ cs_glob_field_pointers' =
                 IF outcome = "crash" THEN cs_glob_field_pointers ELSE GlobNull
            /\ UNCHANGED <<n_pointers, field_pointer, sublist_size,
                           mapped, calls, field_objects, threads>>
       ELSE /\ outcome = "continue"
            /\ last' = Call("destroy_all", 0, 0, Cardinality(Released))
            /\ field_objects' = AfterFree(field_objects, FreedBlocks)
            /\ field_pointer' = CS_FREE(field_pointer)
            /\ sublist_size' = CS_FREE(sublist_size)
            /\ cs_glob_field_pointers' = GlobNull
            /\ mapped' = NoneMapped
            /\ calls' = NoCalls
            /\ UNCHANGED <<n_pointers, status, threads>>

(* ------------------------------------------------------------------ *)
(* Mapping                                                             *)
(* ------------------------------------------------------------------ *)

\* Mutant of IsDirect: the width is not tested.
IsDirect_AnyWidth(sz, index) == index = 0

\* index == 0 && _sublist_size[e] <= 1
IsDirect(sz, index) == index = 0 /\ sz <= 1

\* _field_pointer[e].f = f
DirectStore(s, f) == [s EXCEPT !.f = f]

\* Mutant of DirectWidth: the width is incremented instead of set.
DirectWidth_Increment(sz) == sz + 1

\* _sublist_size[e] = 1
DirectWidth(sz) == 1

\* _sublist_size[e] <= index
NeedsGrowth(sz, index) == sz <= index

\* Mutant of Grown: the direct handle is not copied to position 0.
Grown_NoCopy(s, sz, n_sub) ==
  LET a1 == IF s.p.own THEN ArrTrunc(s.p.at, n_sub) ELSE {}
      a3 == ArrClear(a1, sz, n_sub)
  IN  [own |-> TRUE, len |-> n_sub, at |-> a3]

\* Mutant of Grown: the new positions are not set to nullptr, and the low
\* ones hold a handle left in the memory the allocator returned.
Grown_Uncleared(s, sz, n_sub) ==
  LET old == IF s.p.own THEN s.p.len ELSE 0
      a1  == IF s.p.own THEN ArrTrunc(s.p.at, n_sub) ELSE {}
      a2  == a1 \cup {<<i, "fA">> : i \in {j \in 0 .. MaxIndex :
                                              j >= old /\ j < n_sub}}
      a3  == ArrSet(a2, 0, s.f)
  IN  [own |-> TRUE, len |-> n_sub, at |-> a3]

\* The sub-list after the allocation to n_sub elements: CS_MALLOC when p is
\* &f and CS_REALLOC otherwise, then p[0] = f, then the positions from the
\* old width up to n_sub set to nullptr.
Grown(s, sz, n_sub) ==
  LET a1 == IF s.p.own THEN ArrTrunc(s.p.at, n_sub) ELSE {}
      a2 == ArrSet(a1, 0, s.f)
      a3 == ArrClear(a2, sz, n_sub)
  IN  [own |-> TRUE, len |-> n_sub, at |-> a3]

\* _sublist_size[e] = n_sub, an int stored in a short int.
GrownWidth(n_sub) == ToShort(n_sub)

\* _field_pointer[e].p[index] = f
StoreAt(s, index, f) ==
  IF s.p.own
    THEN [s EXCEPT !.p.at = ArrSet(s.p.at, index, f)]
    ELSE IF index = 0 THEN [s EXCEPT !.f = f] ELSE s

\* Whether p[index] lies outside the storage p points to.
OutOfRange(s, index) ==
  IF s.p.own THEN index < 0 \/ index >= s.p.len ELSE index # 0

\* Body of cs_field_pointer_map_indexed on slot s of width sz, once the
\* registry is initialized: the new slot, the new width, and whether the
\* call wrote outside the sub-list array.
MapSlot(s, sz, index, f) ==
  IF IsDirect(sz, index)
    THEN [slot |-> DirectStore(s, f), size |-> DirectWidth(sz), oob |-> FALSE]
    ELSE IF NeedsGrowth(sz, index)
      THEN LET n_sub == index + 1
               g     == [s EXCEPT !.p = Grown(s, sz, n_sub)]
           IN  [slot |-> StoreAt(g, index, f),
                size |-> GrownWidth(n_sub),
                oob  |-> sz < 0]
      ELSE [slot |-> StoreAt(s, index, f),
            size |-> sz,
            oob  |-> OutOfRange(s, index)]

\* cs_field_pointer_map_indexed(e, index, f), called as `op`: the lazy
\* initialization, then the body on slot e.
MapBody(op, e, index, f, outcome) ==
  \E slots \in {IF field_pointer = NULLPTR THEN InitSlots ELSE field_pointer},
     sizes \in {IF field_pointer = NULLPTR THEN InitSizes ELSE sublist_size},
     hist  \in {IF field_pointer = NULLPTR THEN NoneMapped ELSE mapped},
     shape \in {IF field_pointer = NULLPTR THEN NoCalls ELSE calls} :
    \E r \in {MapSlot(slots[e], sizes[e], index, f)} :
      /\ status = "running"
      /\ IF r.oob
           THEN status' = IF outcome = "crash" THEN "crashed" ELSE status
           ELSE outcome = "continue" /\ UNCHANGED status
      /\ last' = Call(op, e, index, 0)
      /\ n_pointers' = N_POINTERS
      /\ cs_glob_field_pointers' = GlobArray
      /\ mapped' = Recorded(hist, e, index, f)
      /\ calls' = [shape EXCEPT ![e] = NextShape(shape[e], hist, e, index)]
      /\ field_pointer' = [slots EXCEPT ![e] = r.slot]
      /\ sublist_size' = [sizes EXCEPT ![e] = r.size]
      /\ UNCHANGED field_objects

\* The call made by the one thread of the program.
MapCall(op, e, index, f, outcome) ==
  /\ MapBody(op, e, index, f, outcome)
  /\ UNCHANGED threads

cs_field_pointer_map_indexed(e, index, f, outcome) ==
  MapCall("map_indexed", e, index, f, outcome)

\* cs_field_pointer_map(e, f)
cs_field_pointer_map(e, f, outcome) ==
  MapCall("map", e, 0, f, outcome)

\* A build compiles the assert() calls in ("debug"), or out (NDEBUG).
Builds == {"debug", "NDEBUG"}

\* Arguments outside the contract: an enumerator below 0 or not below
\* _n_pointers, a negative index.
BadEnumerators == {-1, N_POINTERS}

BadIndices == {-1}

\* cs_field_pointer_map_indexed(e, index, f), called as `op`, with an
\* enumerator outside 0 .. _n_pointers - 1 or a negative index.  In a debug
\* build assert(index >= 0) aborts first; otherwise the lazy initialization
\* runs, and then assert(e < _n_pointers) aborts when e is too large.  Where
\* no assert stops the call, _sublist_size[e] or p[index] is accessed outside
\* its array: the process dies, or the stray access misses the registry and
\* the call returns.
MapViolation(op, e, index, f, build, outcome) ==
  /\ status = "running"
  /\ index < 0 \/ e \notin Enumerators
  /\ last' = Call(op, e, index, 0)
  /\ UNCHANGED <<field_objects, threads>>
  /\ IF build = "debug" /\ ~(index >= 0)
       THEN /\ status' = "crashed"
            /\ UNCHANGED <<n_pointers, field_pointer, sublist_size,
                           cs_glob_field_pointers, mapped, calls>>
       ELSE /\ IF field_pointer = NULLPTR
                 THEN init_pointers
                 ELSE UNCHANGED <<n_pointers, field_pointer, sublist_size,
                                  cs_glob_field_pointers, mapped, calls>>
            /\ status' = IF build = "debug" /\ ~(e < N_POINTERS)
                           THEN "crashed"
                           ELSE IF outcome = "crash" THEN "crashed" ELSE status

\* The model explores at most MaxCalls mapping calls per registry lifetime.
WithinBudget == ~Initialized \/ ncalls < MaxCalls

\* Handles the callers pass: any handle to cs_field_pointer_map (the domain
\* helpers pass the nullptr of cs_field_by_name_try for an absent field), a
\* field to cs_field_pointer_map_indexed.
MapHandles == Handles

IndexedHandles == Fields

MapStep ==
  /\ WithinBudget
  /\ \E e \in Targets, f \in MapHandles, outcome \in UBOutcomes :
       cs_field_pointer_map(e, f, outcome)

MapIndexedStep(indices) ==
  /\ WithinBudget
  /\ \E e \in Targets, index \in indices, f \in IndexedHandles,
        outcome \in UBOutcomes :
       cs_field_pointer_map_indexed(e, index, f, outcome)

DestroyStep == \E outcome \in UBOutcomes : cs_field_pointer_destroy_all(outcome)

Next ==
  \/ cs_field_pointer_ensure_init
  \/ DestroyStep
  \/ MapStep
  \/ MapIndexedStep(Indices)

Spec == Init /\ [][Next]_vars

\* The same program with the callers' indices kept below the short int range.
NextNarrow ==
  \/ cs_field_pointer_ensure_init
  \/ DestroyStep
  \/ MapStep
  \/ MapIndexedStep(0 .. MaxIndex)

SpecNarrow == Init /\ [][NextNarrow]_vars

(* ------------------------------------------------------------------ *)
(* cs_field_pointer_map_atmospheric                                    *)
(* ------------------------------------------------------------------ *)

\* The registry between two of the mapping calls one function makes:
\* the arrays, the history, and whether a call wrote outside an array.
Registry(slots, sizes, hist, shape) ==
  [slots |-> slots, sizes |-> sizes, hist |-> hist, shape |-> shape,
   oob |-> FALSE]

\* cs_field_pointer_map_indexed(e, index, f) on an initialized registry.
Mapped(reg, e, index, f) ==
  LET r == MapSlot(reg.slots[e], reg.sizes[e], index, f)
  IN  [slots |-> [reg.slots EXCEPT ![e] = r.slot],
       sizes |-> [reg.sizes EXCEPT ![e] = r.size],
       hist  |-> Recorded(reg.hist, e, index, f),
       shape |-> [reg.shape EXCEPT
                    ![e] = NextShape(reg.shape[e], reg.hist, e, index)],
       oob   |-> reg.oob \/ r.oob]

\* for (i = k - 1; i < n_chem_species; i++)
\*   cs_field_pointer_map_indexed(CS_ENUMF_(chemistry), i, species[i + 1])
RECURSIVE MapSpecies(_, _, _)
MapSpecies(reg, species, k) ==
  IF k > Len(species)
    THEN reg
    ELSE MapSpecies(Mapped(reg, chemistry, k - 1, species[k]), species, k + 1)

\* Results of cs_field_by_name_try for the three names: the field of that
\* name, or nullptr when there is none.
ByName ==
  [temperature |-> {Null, "fA"}, ym_water |-> {Null, "fB"},
   number_of_droplets |-> {Null}]

\* The species lists passed: cs_field_by_id(species_f_id[i]) for each i.
SpeciesLists ==
  UNION {[1 .. n -> IndexedHandles] : n \in 0 .. (MaxIndex + 1)}

\* cs_field_pointer_map_atmospheric(n_chem_species, species_f_id), where
\* temperature, ym_water and droplets are the fields found by name and
\* species[i + 1] is the field of id species_f_id[i]; the first
\* cs_field_pointer_map call initializes an unset registry.
cs_field_pointer_map_atmospheric(temperature, ym_water, droplets, species, outcome) ==
  \E slots \in {IF field_pointer = NULLPTR THEN InitSlots ELSE field_pointer},
     sizes \in {IF field_pointer = NULLPTR THEN InitSizes ELSE sublist_size},
     hist  \in {IF field_pointer = NULLPTR THEN NoneMapped ELSE mapped},
     shape \in {IF field_pointer = NULLPTR THEN NoCalls ELSE calls} :
    \E r1 \in {Mapped(Registry(slots, sizes, hist, shape),
                      pot_t, 0, temperature)} :
    \E r2 \in {Mapped(r1, ym_w, 0, ym_water)} :
    \E r3 \in {Mapped(r2, ntdrp, 0, droplets)} :
    \E r \in {MapSpecies(r3, species, 1)} :
      /\ status = "running"
      /\ IF r.oob
           THEN status' = IF outcome = "crash" THEN "crashed" ELSE status
           ELSE outcome = "continue" /\ UNCHANGED status
      /\ last' = Call("map_atmospheric", chemistry, Len(species), 0)
      /\ n_pointers' = N_POINTERS
      /\ cs_glob_field_pointers' = GlobArray
      /\ mapped' = r.hist
      /\ calls' = r.shape
      /\ field_pointer' = r.slots
      /\ sublist_size' = r.sizes
      /\ UNCHANGED <<field_objects, threads>>

\* The model explores at most MaxAtmoCalls calls per registry lifetime.
AtmoStep ==
  /\ ~Initialized \/ calls[pot_t].n < MaxAtmoCalls
  /\ \E temperature \in ByName.temperature, ym_water \in ByName.ym_water,
        droplets \in ByName.number_of_droplets, species \in SpeciesLists,
        outcome \in UBOutcomes :
       cs_field_pointer_map_atmospheric(temperature, ym_water, droplets,
                                        species, outcome)

\* The program whose mapping calls all come from
\* cs_field_pointer_map_atmospheric.
NextAtmo ==
  \/ cs_field_pointer_ensure_init
  \/ DestroyStep
  \/ AtmoStep

SpecAtmo == Init /\ [][NextAtmo]_vars

\* A caller breaking the contract of cs_field_pointer_map (enumerator) or of
\* cs_field_pointer_map_indexed (enumerator, index, or both).
ViolationStep ==
  \E build \in Builds, outcome \in UBOutcomes, f \in IndexedHandles :
    \/ \E e \in BadEnumerators : MapViolation("map", e, 0, f, build, outcome)
    \/ \E e \in BadEnumerators, index \in (0 .. MaxIndex) \cup BadIndices :
         MapViolation("map_indexed", e, index, f, build, outcome)
    \/ \E e \in Targets, index \in BadIndices :
         MapViolation("map_indexed", e, index, f, build, outcome)

\* The program with callers that may break the contract of the mapping calls.
NextContract ==
  \/ cs_field_pointer_ensure_init
  \/ DestroyStep
  \/ MapStep
  \/ MapIndexedStep(0 .. MaxIndex)
  \/ ViolationStep

SpecContract == Init /\ [][NextContract]_vars

\* One caller filling the chemistry slot in increasing index order, as the
\* loop of cs_field_pointer_map_atmospheric does, up to SHRT_MAX + 1 entries:
\* fields at the indices up to MaxIndex, null handles above.
FillStep ==
  \E e \in {chemistry} :
    /\ \A o \in Enumerators \ {e} : ~Initialized \/ calls[o].n = 0
    /\ \E index \in {IF Initialized THEN calls[e].n ELSE 0} :
         /\ index <= SHRT_MAX
         /\ \E f \in (IF index <= MaxIndex THEN IndexedHandles ELSE {Null}) :
              cs_field_pointer_map_indexed(e, index, f, "continue")

SpecFill == Init /\ [][FillStep]_vars

(* ------------------------------------------------------------------ *)
(* Unsynchronized callers                                              *)
(* Each thread makes one call, cs_field_pointer_ensure_init() or       *)
(* cs_field_pointer_map(e, f), and the statements of the calls         *)
(* interleave.  A thread's record holds its position (pc), its call,   *)
(* whether its test of _field_pointer found it null (saw_unset), the   *)
(* value of the condition of assert(_field_pointer == nullptr) when it *)
(* passed it (assert_ok), whether it ran the body of _init_pointers    *)
(* (ran_init), and the build of the program.                           *)
(* ------------------------------------------------------------------ *)

Threads == 1 .. MaxThreads

NotCalled(build) ==
  [pc |-> "idle", op |-> "none", e |-> 0, f |-> Null, saw_unset |-> FALSE,
   assert_ok |-> TRUE, ran_init |-> FALSE, build |-> build]

InitRace ==
  /\ Unset
  /\ \E build \in Builds : threads = [t \in Threads |-> NotCalled(build)]

\* Where a thread goes once the registry is initialized: ensure_init
\* returns, map_indexed goes on with its body.
AfterInit(op) == IF op = "ensure_init" THEN "done" ELSE "body"

\* if (_field_pointer == nullptr), at the entry of ensure_init or of
\* map_indexed.
ThreadTest(t, op, e, f) ==
  /\ status = "running"
  /\ threads[t].pc = "idle"
  /\ last' = Call(op, e, 0, 0)
  /\ threads' = [threads EXCEPT ![t] =
       [@ EXCEPT !.op = op, !.e = e, !.f = f,
                 !.saw_unset = (field_pointer = NULLPTR),
                 !.pc = IF field_pointer = NULLPTR
                          THEN "assert" ELSE AfterInit(op)]]
  /\ UNCHANGED <<n_pointers, field_pointer, sublist_size,
                 cs_glob_field_pointers, status, mapped, calls, field_objects>>

\* assert(_field_pointer == nullptr), at the entry of _init_pointers.
ThreadAssert(t) ==
  /\ status = "running"
  /\ threads[t].pc = "assert"
  /\ \E ok \in {field_pointer = NULLPTR} :
       /\ status' = IF threads[t].build = "debug" /\ ~ok
                      THEN "crashed" ELSE status
       /\ threads' = [threads EXCEPT ![t] =
            [@ EXCEPT !.assert_ok = ok,
                      !.pc = IF threads[t].build = "debug" /\ ~ok
                               THEN "aborted" ELSE "init"]]
  /\ UNCHANGED <<n_pointers, field_pointer, sublist_size,
                 cs_glob_field_pointers, mapped, calls, last, field_objects>>

\* Mutant of ThreadInit: the pointer is tested again before the allocation.
ThreadInit_Recheck(t) ==
  /\ status = "running"
  /\ threads[t].pc = "init"
  /\ IF field_pointer = NULLPTR
       THEN /\ init_pointers
            /\ threads' = [threads EXCEPT ![t] =
                 [@ EXCEPT !.ran_init = TRUE, !.pc = AfterInit(threads[t].op)]]
       ELSE /\ threads' = [threads EXCEPT ![t] =
                 [@ EXCEPT !.pc = AfterInit(threads[t].op)]]
            /\ UNCHANGED <<n_pointers, field_pointer, sublist_size,
                           cs_glob_field_pointers, mapped, calls>>
  /\ UNCHANGED <<status, last, field_objects>>

\* The body of _init_pointers: both arrays allocated, every slot set to its
\* default, the public pointer set.  Arrays allocated before stay allocated,
\* unreferenced.
ThreadInit(t) ==
  /\ status = "running"
  /\ threads[t].pc = "init"
  /\ init_pointers
  /\ threads' = [threads EXCEPT ![t] =
       [@ EXCEPT !.ran_init = TRUE, !.pc = AfterInit(threads[t].op)]]
  /\ UNCHANGED <<status, last, field_objects>>

\* The rest of cs_field_pointer_map_indexed, from assert(e < _n_pointers).
ThreadMap(t) ==
  /\ threads[t].pc = "body"
  /\ field_pointer # NULLPTR
  /\ \E outcome \in UBOutcomes :
       MapBody(threads[t].op, threads[t].e, 0, threads[t].f, outcome)
  /\ threads' = [threads EXCEPT ![t] = [@ EXCEPT !.pc = "done"]]

\* Number of times the slot arrays were allocated.
allocs == Cardinality({t \in Threads : threads[t].ran_init})

NextRace ==
  \E t \in Threads :
    \/ ThreadTest(t, "ensure_init", 0, Null)
    \/ \E e \in Targets, f \in Fields : ThreadTest(t, "map", e, f)
    \/ ThreadAssert(t)
    \/ ThreadInit(t)
    \/ ThreadMap(t)

SpecRace == InitRace /\ [][NextRace]_vars

(* ------------------------------------------------------------------ *)
(* Concurrent readers                                                  *)
(* The start-up maps the fields with one call of                       *)
(* cs_field_pointer_map_atmospheric; worker threads then read the      *)
(* registry through CS_F_ and CS_FI_, one lookup each.  A reader's     *)
(* record holds the lookup it made and the handle it got.              *)
(* ------------------------------------------------------------------ *)

NoRead == [pc |-> "idle", direct |-> FALSE, e |-> 0, i |-> 0, got |-> Null]

\* The mapping call of the start-up.
StartupStep ==
  /\ threads = OneThread
  /\ ~Initialized \/ calls[pot_t].n = 0
  /\ AtmoStep

\* The worker threads start once the mapping has completed.
StartReaders ==
  /\ threads = OneThread
  /\ status = "running"
  /\ Initialized /\ calls[pot_t].n > 0
  /\ threads' = [t \in Threads |-> NoRead]
  /\ UNCHANGED <<n_pointers, field_pointer, sublist_size,
                 cs_glob_field_pointers, status, mapped, calls, last,
                 field_objects>>

\* Thread t evaluates CS_F_(e).
ThreadReadDirect(t, e) ==
  /\ threads # OneThread
  /\ threads[t].pc = "idle"
  /\ threads' = [threads EXCEPT ![t] =
       [pc |-> "read", direct |-> TRUE, e |-> e, i |-> 0, got |-> CS_F_(e)]]
  /\ UNCHANGED <<n_pointers, field_pointer, sublist_size,
                 cs_glob_field_pointers, status, mapped, calls, last,
                 field_objects>>

\* Mutant of ThreadReadIndexed: the lookup keeps the handle it read in the
\* direct handle of the slot.
ThreadReadIndexed_Caching(t, e, i) ==
  /\ threads # OneThread
  /\ threads[t].pc = "idle"
  /\ i >= 0 /\ i < sublist_size[e]
  /\ threads' = [threads EXCEPT ![t] =
       [pc |-> "read", direct |-> FALSE, e |-> e, i |-> i,
        got |-> CS_FI_(e, i)]]
  /\ field_pointer' = [field_pointer EXCEPT ![e].f = CS_FI_(e, i)]
  /\ UNCHANGED <<n_pointers, sublist_size,
                 cs_glob_field_pointers, status, mapped, calls, last,
                 field_objects>>

\* Thread t evaluates CS_FI_(e, i), for an i within the width of slot e.
ThreadReadIndexed(t, e, i) ==
  /\ threads # OneThread
  /\ threads[t].pc = "idle"
  /\ i >= 0 /\ i < sublist_size[e]
  /\ threads' = [threads EXCEPT ![t] =
       [pc |-> "read", direct |-> FALSE, e |-> e, i |-> i,
        got |-> CS_FI_(e, i)]]
  /\ UNCHANGED <<n_pointers, field_pointer, sublist_size,
                 cs_glob_field_pointers, status, mapped, calls, last,
                 field_objects>>

ReaderStep ==
  \E t \in Threads, e \in Enumerators :
    \/ ThreadReadDirect(t, e)
    \/ \E i \in 0 .. MaxIndex : ThreadReadIndexed(t, e, i)

NextReaders ==
  \/ threads = OneThread /\ cs_field_pointer_ensure_init
  \/ StartupStep
  \/ StartReaders
  \/ ReaderStep

SpecReaders == Init /\ [][NextReaders]_vars

TypeOK ==
  /\ status \in {"running", "crashed"}
  /\ n_pointers \in {0, N_POINTERS}

(* ------------------------------------------------------------------ *)
(* Properties                                                          *)
(* ------------------------------------------------------------------ *)

Running == status = "running"

\* The last call was a mapping call (map, or map_indexed) that returned.
LastMapped == Running /\ last.op \in {"map", "map_indexed"}

\* Slot e has not been the target of a mapping call since initialization.
NeverMapped(e) == \A i \in Indices : mapped[e][i] = NotMapped

\* Slot e uses a separately allocated sub-list.
Expanded(e) == field_pointer[e].p.own

\* C1: after map(e, h), on any registry state, the direct lookup CS_F_(e)
\* returns h.
C1_MapThenDirectLookup ==
  (Running /\ last.op = "map") => CS_F_(last.e) = mapped[last.e][0]

\* C2: a handle mapped at (e, i) is returned by the indexed lookup (e, i)
\* until a call targets (e, i) again or the registry is destroyed, whatever
\* other positions are mapped and however slot e grows in between.
C2_MappedHandleStays ==
  (Running /\ Initialized) =>
    \A e \in Enumerators, i \in Indices :
      mapped[e][i] # NotMapped => CS_FI_(e, i) = mapped[e][i]

\* C3: on a slot not mapped yet, map_indexed(e, index2, h2) followed by
\* map_indexed(e, index1, h1) with index1 < index2 leaves h2 at index2, h1 at
\* index1 and a recorded width of index2 + 1.
C3_HighThenLow ==
  \A e \in Enumerators :
    (Running /\ Initialized /\ calls[e].n = 2 /\ calls[e].desc) =>
      \A i1, i2 \in MappedIndices(mapped, e) :
        i1 < i2 =>
          /\ CS_FI_(e, i2) = mapped[e][i2]
          /\ CS_FI_(e, i1) = mapped[e][i1]
          /\ sublist_size[e] = i2 + 1

\* C4: when a slot holding a direct handle h0 (width 1, inline) is expanded
\* by map_indexed(e, index, h) with index > 0, the indexed lookup (e, 0)
\* returns h0 and the lookup (e, index) returns h afterwards.
C4_ExpansionKeepsDirect ==
  [][\A e \in Enumerators, index \in Indices \ {0} :
       ( /\ Initialized
         /\ sublist_size[e] = 1
         /\ ~Expanded(e)
         /\ last' # last
         /\ last'.op = "map_indexed" /\ last'.e = e /\ last'.index = index )
       => ( /\ CS_FI_(e, 0)' = field_pointer[e].f
            /\ CS_FI_(e, index)' = mapped'[e][index] )]_vars

\* Witness of C4: map(e, h0) with a field h0, then the expansion by an index
\* above 0; h0 is read back at index 0.
C4_Witness ==
  \E e \in Enumerators, index \in Indices \ {0} :
    /\ LastMapped /\ last.op = "map_indexed"
    /\ last.e = e /\ last.index = index
    /\ calls[e].n = 2
    /\ mapped[e][0] \in Fields
    /\ mapped[e][index] \in Fields \ {mapped[e][0]}
    /\ Expanded(e)
    /\ CS_FI_(e, 0) = mapped[e][0]
    /\ CS_FI_(e, index) = mapped[e][index]

\* C5: a slot mapped at index 0 only, any number of times, never gets an
\* expanded sub-list and its width stays <= 1.
C5_IndexZeroStaysInline ==
  \A e \in Enumerators :
    (Initialized /\ \A i \in Indices \ {0} : mapped[e][i] = NotMapped) =>
      /\ sublist_size[e] <= 1
      /\ ~Expanded(e)

\* Witness of C5: a slot mapped three times at index 0, through both calls.
C5_Witness ==
  \E e \in Enumerators :
    /\ LastMapped /\ last.e = e
    /\ calls[e].n = 3
    /\ \A i \in Indices \ {0} : mapped[e][i] = NotMapped
    /\ mapped[e][0] \in Fields
    /\ sublist_size[e] = 1
    /\ CS_F_(e) = mapped[e][0]

\* C6: mapping indices 0, 1, ..., n-1 in increasing order on a freshly
\* initialized slot yields lookup(e, i) = h_i for every i < n and a recorded
\* width of exactly n.
C6_AscendingFill ==
  \A e \in Enumerators :
    (Running /\ Initialized /\ calls[e].asc /\ calls[e].n >= 1) =>
      /\ sublist_size[e] = calls[e].n
      /\ \A i \in Indices :
           i < calls[e].n => CS_FI_(e, i) = mapped[e][i]

\* Witness of C6: indices 0, 1, 2 mapped in this order.
C6_Witness ==
  \E e \in Enumerators :
    /\ LastMapped /\ last.e = e /\ last.index = 2
    /\ calls[e].asc /\ calls[e].n = 3
    /\ mapped[e][0] \in Fields /\ mapped[e][1] \in Fields \ {mapped[e][0]}
    /\ CS_FI_(e, 0) = mapped[e][0]
    /\ CS_FI_(e, 1) = mapped[e][1]
    /\ CS_FI_(e, 2) = mapped[e][2]
    /\ sublist_size[e] = 3

\* Every slot is in the state _init_pointers gives it.
AllDefault ==
  /\ Initialized
  /\ cs_glob_field_pointers = GlobArray
  /\ \A e \in Enumerators :
       /\ field_pointer[e].f = Null
       /\ field_pointer[e].p = InlineP
       /\ sublist_size[e] = 0

\* C7: after destroy_all the private and the public pointer are unset, and
\* an ensure_init that follows gives a registry whose slots all have a null
\* direct handle and width 0, whatever was mapped before the teardown.
C7_DestroyThenInit ==
  /\ (Running /\ last.op = "destroy_all") =>
       (field_pointer = NULLPTR /\ cs_glob_field_pointers = GlobNull)
  /\ (Running /\ last.op = "ensure_init" /\ last.after_destroy) => AllDefault

\* Witness of C7: ensure_init right after a destroy_all that released the
\* sub-lists of two expanded slots.
C7_Witness ==
  /\ Running /\ last.op = "ensure_init" /\ last.after_destroy
  /\ last.freed >= 2
  /\ AllDefault

\* C8: ensure_init on an initialized registry changes no slot, no width and
\* no pointer.
C8_EnsureInitIdempotent ==
  [][(Initialized /\ cs_field_pointer_ensure_init) =>
       UNCHANGED <<n_pointers, field_pointer, sublist_size,
                   cs_glob_field_pointers>>]_vars

\* Witness of C8: ensure_init returned on a registry that holds an expanded
\* slot, whose handles are still there.
C8_Witness ==
  /\ Running /\ last.op = "ensure_init"
  /\ \E e \in Enumerators :
       /\ Expanded(e)
       /\ sublist_size[e] = 2
       /\ mapped[e][0] \in Fields /\ CS_FI_(e, 0) = mapped[e][0]
       /\ mapped[e][1] \in Fields /\ CS_FI_(e, 1) = mapped[e][1]

\* C9: between initialization and destroy_all no width ever decreases under
\* ensure_init, map and map_indexed.
C9_WidthNeverDecreases ==
  [][(Initialized /\ Initialized' /\ Running') =>
       \A i \in Enumerators : sublist_size'[i] >= sublist_size[i]]_vars

\* C10: a direct lookup of an enumerator never mapped yields a null handle
\* in every registry state, the unset ones included.
C10_AbsentIsNullEverywhere ==
  \A e \in Enumerators : (Running /\ NeverMapped(e)) => CS_F_(e) = Null

\* C10 as amended: on an initialized registry, the lookup of an enumerator
\* not mapped since the initialization yields a null handle; on an unset
\* registry the lookup reads through a null pointer.
C10_AbsentIsNullWhenInitialized ==
  \A e \in Enumerators :
    /\ (Running /\ Initialized /\ NeverMapped(e)) =>
         (CS_F_(e) = Null /\ CS_FI_(e, 0) = Null)
    /\ ~Initialized => CS_F_(e) = Undefined

\* Witness of C10: a slot never mapped read as null while another slot is
\* expanded.
C10_Witness ==
  \E e, o \in Enumerators :
    /\ Running /\ Initialized
    /\ NeverMapped(e) /\ CS_F_(e) = Null
    /\ o # e /\ Expanded(o) /\ CS_F_(o) \in Fields

\* Whether the last call broke the contract of the mapping functions.
ContractBroken(c) ==
  /\ c.op \in {"map", "map_indexed"}
  /\ c.e \notin Enumerators \/ c.index < 0

\* C11: map / map_indexed called with an enumerator outside 0 .. capacity - 1
\* or with a negative index ends in the abort of the process, and the call
\* changes no slot, no width and no other registry state, whether the
\* registry is initialized included.
C11_ViolationAbortsUntouched ==
  [][(last' # last /\ ContractBroken(last')) =>
       ( /\ status' = "crashed"
         /\ UNCHANGED <<n_pointers, field_pointer, sublist_size,
                        cs_glob_field_pointers>> )]_vars

\* C11, the debug build alone: the call aborts, but cs_field_pointer_map with
\* an enumerator >= _n_pointers has initialized the registry before.
C11_AbortedAfterInit ==
  /\ status = "crashed" /\ ContractBroken(last)
  /\ last.e = N_POINTERS /\ last.index = 0
  /\ Initialized /\ AllDefault

\* C12: after map(e, h), on any reachable registry state, the width
\* sublist_size[e] equals 1.
C12_MapSetsWidthOne ==
  (Running /\ last.op = "map" /\ last.e \in Enumerators) =>
    sublist_size[last.e] = 1

\* C12 as amended: map(e, h) sets the width of slot e to 1 when it was at
\* most 1 (or the registry was unset), and leaves a width above 1 as it is.
C12_MapKeepsExpandedWidth ==
  [][\A e \in Enumerators :
       (last'.op = "map" /\ last'.e = e /\ Running') =>
         sublist_size'[e] =
           IF ~Initialized \/ sublist_size[e] <= 1 THEN 1 ELSE sublist_size[e]]_vars

\* Witness of C12: map returned on an expanded slot of width 2, whose width
\* is still 2 and whose position 0 holds the handle.
C12_Witness ==
  /\ Running /\ last.op = "map" /\ last.e \in Enumerators
  /\ Expanded(last.e)
  /\ sublist_size[last.e] = 2
  /\ mapped[last.e][0] \in Fields
  /\ CS_FI_(last.e, 0) = mapped[last.e][0]

\* C13: ensure_init and the mapping calls are not safe under unsynchronized
\* concurrent use.  Nothing between the test of _field_pointer and the
\* allocation looks at the pointer again (but the assert of a debug build):
\* every thread that saw the registry unset and went on has allocated the
\* arrays, so the arrays are allocated once per such thread; and the
\* condition of the assert at the entry of the initializer is false exactly
\* for a thread that saw the registry unset and entered after another thread
\* had initialized it.
C13_UnsetSeenMeansInit ==
  /\ \A t \in Threads :
       /\ (threads[t].saw_unset /\ threads[t].pc \in {"body", "done"})
            => threads[t].ran_init
       /\ ~threads[t].assert_ok =>
            /\ threads[t].saw_unset
            /\ \E u \in Threads \ {t} :
                 threads[u].saw_unset /\ threads[u].ran_init
  /\ allocs = Cardinality({t \in Threads :
                 /\ threads[t].saw_unset
                 /\ threads[t].pc \in {"body", "done"}})

\* Witness of C13: two threads both saw the registry unset and both ran the
\* initialization; the arrays were allocated twice, and the second thread
\* entered the initializer with the condition of its assert false.
C13_Witness ==
  \E t, u \in Threads :
    /\ t # u /\ Running
    /\ threads[t].saw_unset /\ threads[t].ran_init /\ threads[t].pc = "done"
    /\ threads[u].saw_unset /\ threads[u].ran_init /\ threads[u].pc = "done"
    /\ threads[t].assert_ok /\ ~threads[u].assert_ok
    /\ allocs >= 2

\* The handle a sequential read of the lookup recorded in r returns.
SequentialRead(r) == IF r.direct THEN CS_F_(r.e) ELSE CS_FI_(r.e, r.i)

\* C14: once mapping has completed, the lookups (direct, or indexed within
\* the width of the slot) change no registry state: whatever the other
\* readers have done since, the handle a reader got is the handle a
\* sequential read of the same position returns, and it is a handle mapped
\* there or null.
C14_ReadersAgree ==
  threads # OneThread =>
    \A t \in Threads :
      threads[t].pc = "read" =>
        /\ threads[t].got = SequentialRead(threads[t])
        /\ threads[t].got \in Handles
        /\ \A u \in Threads :
             ( /\ threads[u].pc = "read"
               /\ threads[u].direct = threads[t].direct
               /\ threads[u].e = threads[t].e
               /\ threads[u].i = threads[t].i )
             => threads[u].got = threads[t].got

\* Witness of C14: two readers got the same field from (chemistry, 1), on a
\* slot whose direct handle is another field.
C14_Witness ==
  /\ threads # OneThread
  /\ \E t, u \in Threads :
       /\ t # u
       /\ threads[t].pc = "read" /\ ~threads[t].direct
       /\ threads[t].e = chemistry /\ threads[t].i = 1
       /\ threads[u] = threads[t]
       /\ threads[t].got \in Fields \ {CS_F_(chemistry)}
       /\ threads[t].got = mapped[chemistry][1]

C16_SpeciesReadBack ==
  (Running /\ last.op = "map_atmospheric") =>
    \A i \in 0 .. (last.index - 1) :
      CS_FI_(chemistry, i) = mapped[chemistry][i]

\* Slot i is in the representation its width tells: expanded exactly when the
\* width is above 1, and otherwise inline with width 0 or 1 and a null
\* handle at width 0.
WidthTellsRepresentation(i) ==
  /\ Expanded(i) <=> sublist_size[i] > 1
  /\ ~Expanded(i) =>
       /\ sublist_size[i] \in {0, 1}
       /\ sublist_size[i] = 0 => field_pointer[i].f = Null

\* C17: in every reachable state of an initialized registry each slot uses a
\* separately allocated sub-list if and only if its width is above 1 (inline
\* at width 0 or 1, null at width 0), and an expanded slot never returns to
\* the inline representation before destroy_all.
C17_OneRepresentation ==
  /\ [](Initialized => \A i \in Enumerators : WidthTellsRepresentation(i))
  /\ [][\A i \in Enumerators :
          (Initialized /\ Initialized' /\ Expanded(i)) =>
            (Expanded(i)' /\ sublist_size'[i] > 1)]_vars

\* C18: destroy_all releases every allocation the registry made, each exactly
\* once: the sub-list arrays it frees are exactly those of the slots that
\* have one, and both registry arrays are released and their pointers reset.
C18_DestroyReleasesAll ==
  [][(last'.op = "destroy_all" /\ Initialized /\ Running') =>
       /\ \A i \in Enumerators : Expanded(i) <=> i \in Released
       /\ field_pointer' = NULLPTR
       /\ sublist_size' = NULLPTR]_vars

\* C19: in every reachable state, every position j below the width of a slot
\* e that no map / map_indexed call has targeted since the initialization
\* holds a null handle; so a never-mapped slot expanded by a first mapping
\* at an index k > 0 has positions 0 .. k - 1 null.
C19_UntargetedIsNull ==
  (Running /\ Initialized) =>
    \A e \in Enumerators, j \in 0 .. MaxIndex :
      (j < sublist_size[e] /\ mapped[e][j] = NotMapped) =>
        CS_FI_(e, j) = Null

\* Witness of C19: a slot whose only mapping is at index MaxIndex; the
\* positions below are inside the width and read as null.
C19_Witness ==
  \E e \in Enumerators :
    /\ LastMapped /\ last.e = e /\ last.index = MaxIndex
    /\ calls[e].n = 1
    /\ sublist_size[e] = MaxIndex + 1
    /\ CS_FI_(e, MaxIndex) \in Fields
    /\ \A j \in 0 .. (MaxIndex - 1) :
         mapped[e][j] = NotMapped /\ CS_FI_(e, j) = Null

Max(a, b) == IF a >= b THEN a ELSE b

\* C20: after a map_indexed(e, index, h) that returned, the recorded width
\* of slot e equals max(previous width, index + 1), for every index >= 0 of
\* the int range (the previous width of a slot of an unset registry is 0).
C20_WidthIsMax ==
  [][\A e \in Enumerators :
       (last'.op = "map_indexed" /\ last'.e = e /\ Running') =>
         sublist_size'[e] =
           Max(IF Initialized THEN sublist_size[e] ELSE 0, last'.index + 1)]_vars

\* C21: map_indexed(e, index, h) with index below the width of slot e
\* overwrites in place: no allocation or reallocation (the pointer p and the
\* size of what it points to are the same), no width changes, and among the
\* positions of the registry only (e, index) changes, to h.
C21_OverwriteInPlace ==
  [][\A e \in Enumerators, index \in 0 .. MaxIndex :
       ( /\ Initialized /\ Running'
         /\ last'.op = "map_indexed" /\ last'.e = e /\ last'.index = index
         /\ index < sublist_size[e] )
       => ( /\ sublist_size' = sublist_size
            /\ field_pointer'[e].p.own = field_pointer[e].p.own
            /\ field_pointer'[e].p.len = field_pointer[e].p.len
            /\ \A o \in Enumerators \ {e} :
                 field_pointer'[o] = field_pointer[o]
            /\ CS_FI_(e, index)' = mapped'[e][index]
            /\ \A j \in 0 .. MaxIndex :
                 (j # index /\ j < sublist_size[e]) =>
                   CS_FI_(e, j)' = CS_FI_(e, j) )]_vars

\* C22: destroy_all is safe in every registry state: on an unset registry
\* (never initialized, or already destroyed) it is a no-op that reads or
\* frees no unallocated or released storage, so the process goes on, and
\* the registry stays unset.
C22_DestroyUnsetIsNoOp ==
  [][(last'.op = "destroy_all" /\ ~Initialized /\ Running) =>
       ( /\ Running'
         /\ UNCHANGED <<n_pointers, field_pointer, sublist_size,
                        cs_glob_field_pointers, field_objects>> )]_vars

\* C22, the never-initialized registry alone: destroy_all returned and left
\* every pointer unset.
C22_NeverInitializedNoOp ==
  (last.op = "destroy_all" /\ n_pointers = 0) =>
    (Running /\ ~Initialized /\ cs_glob_field_pointers = GlobNull)

====
